---- MODULE Spec2Model ----
(***************************************************************************)
(* Streaming chat relay and metrics middleware of aiwatch.                 *)
(*                                                                         *)
(* Every inbound request runs MetricsMiddleware around the mux handler;    *)
(* for /chat the handler is handleChat.  A request is a small process:     *)
(*   idle -> mw (middleware entered) -> stream (relay loop) -> ret         *)
(*        (handler returned) -> done (middleware finished).                *)
(* The metric registry is the only state shared between requests.          *)
(* Strings the code inspects (model names, base URL, message text) are     *)
(* sequences of one-character strings.                                     *)
(***************************************************************************)
EXTENDS Integers, Sequences, FiniteSets, TLC

VARIABLES
    now,                     \* wall clock (time.Now()), in ticks
    pc,                      \* position of each request
    request,                 \* the inbound *http.Request: Method, Path, Body
    resp,                    \* the response writer of each request
    mwStart,                 \* MetricsMiddleware: start
    modelToUse,              \* handleChat locals
    start,
    firstTokenTime,
    outputTokens,
    param,                   \* openai.ChatCompletionNewParams sent upstream
    streamOpens,             \* calls of client.Chat.Completions.NewStreaming
    received,                \* chunks stream.Current() has returned
    writeFailed,             \* the relay loop's Fprintf returned an error
    streamErr,               \* stream.Err() != nil when the loop ended
    ops,                     \* per request: the registry updates it performed
    requestCounter,          \* aiwatch_http_requests_total {method,endpoint,status}
    requestDuration,         \* aiwatch_http_request_duration_seconds {method,endpoint}
    chatTokensCounter,       \* aiwatch_chat_tokens_total {direction,model}
    modelLatency,            \* aiwatch_model_latency_seconds {model,operation}
    activeRequests,          \* aiwatch_active_requests
    firstTokenLatency,       \* aiwatch_first_token_latency_seconds {model}
    llamacppPromptEvalTime,  \* aiwatch_llamacpp_prompt_eval_seconds {model}
    llamacppTokensPerSecond, \* aiwatch_llamacpp_tokens_per_second {model}
    errorCounter,            \* aiwatch_errors_total {type}
    llamacppContextSize,     \* aiwatch_llamacpp_context_size {model}
    llamacppMemoryPerToken,  \* aiwatch_llamacpp_memory_per_token_bytes {model}
    llamacppThreadsUsed,     \* aiwatch_llamacpp_threads_used {model}
    llamacppBatchSize,       \* aiwatch_llamacpp_batch_size {model}
    defaultModel,            \* main: defaultModel (MODEL)
    apiBaseURL,              \* main: baseURL (BASE_URL)
    proc,                    \* where main() stands
    fatalMsg,                \* message of the log.Fatal that ended the process
    probe                    \* result of the last read helper applied on its own

reqVars == <<pc, request, resp, mwStart, modelToUse, start, firstTokenTime,
             outputTokens, param, streamOpens, received, writeFailed,
             streamErr, ops>>
regVars == <<requestCounter, requestDuration, chatTokensCounter, modelLatency,
             activeRequests, firstTokenLatency, llamacppPromptEvalTime,
             llamacppTokensPerSecond>>
cfgVars == <<defaultModel, apiBaseURL>>
sideVars == <<proc, fatalMsg, errorCounter, llamacppContextSize,
              llamacppMemoryPerToken, llamacppThreadsUsed, llamacppBatchSize,
              probe>>
vars == <<now, reqVars, regVars, cfgVars, sideVars>>

----------------------------------------------------------------------------
(* Bounds of the model.                                                    *)

NumReqs == 2          \* requests that may be in flight together
MaxChunks == 1        \* chunks per stream when requests run concurrently
MaxRelayChunks == 3   \* chunks per stream when one request is followed alone
MaxTime == 3          \* last clock tick

Reqs == 1..NumReqs

----------------------------------------------------------------------------
(* Strings.                                                                *)

StrLlama == <<"l", "l", "a", "m", "a">>
StrLlamaCpp == <<"l", "l", "a", "m", "a", ".", "c", "p", "p">>
StrInMarkdown == <<"i", "n", " ", "m", "a", "r", "k", "d", "o", "w", "n">>
StrUsingMarkdown ==
    <<"u", "s", "i", "n", "g", " ", "m", "a", "r", "k", "d", "o", "w", "n">>
StrMarkdown == <<"m", "a", "r", "k", "d", "o", "w", "n">>

\* strings.ToLower, one character
LowerChar(c) ==
    CASE c = "A" -> "a" [] c = "B" -> "b" [] c = "C" -> "c" [] c = "D" -> "d"
      [] c = "E" -> "e" [] c = "F" -> "f" [] c = "G" -> "g" [] c = "H" -> "h"
      [] c = "I" -> "i" [] c = "J" -> "j" [] c = "K" -> "k" [] c = "L" -> "l"
      [] c = "M" -> "m" [] c = "N" -> "n" [] c = "O" -> "o" [] c = "P" -> "p"
      [] c = "Q" -> "q" [] c = "R" -> "r" [] c = "S" -> "s" [] c = "T" -> "t"
      [] c = "U" -> "u" [] c = "V" -> "v" [] c = "W" -> "w" [] c = "X" -> "x"
      [] c = "Y" -> "y" [] c = "Z" -> "z" [] OTHER -> c

ToLower(s) == [k \in 1..Len(s) |-> LowerChar(s[k])]

\* strings.Contains
Contains(s, sub) ==
    \E k \in 0..(Len(s) - Len(sub)) :
        \A j \in 1..Len(sub) : s[k + j] = sub[j]

Digit(d) ==
    CASE d = 0 -> "0" [] d = 1 -> "1" [] d = 2 -> "2" [] d = 3 -> "3"
      [] d = 4 -> "4" [] d = 5 -> "5" [] d = 6 -> "6" [] d = 7 -> "7"
      [] d = 8 -> "8" [] d = 9 -> "9"

\* strconv.Itoa / fmt.Sprintf("%d", n) for n >= 0
RECURSIVE Itoa(_)
Itoa(n) == IF n < 10 THEN Digit(n) ELSE Itoa(n \div 10) \o Digit(n % 10)

----------------------------------------------------------------------------
(* Process configuration, read once at startup.                            *)

\* MODEL
EnvModel == <<"a", "i", "/", "l", "l", "a", "m", "a", "3">>
\* BASE_URL
EnvBaseURL == <<"h", "t", "t", "p", ":", "/", "/", "m", "r", "/", "v", "1">>

StatusOK == 200
StatusBadRequest == 400
StatusMethodNotAllowed == 405
StatusInternalServerError == 500

----------------------------------------------------------------------------
(* The metric registry: a vector is a function from the label tuples that  *)
(* have been created to their values.                                      *)

NoSeries == [l \in {} |-> 0]

\* no read helper has been applied on its own yet
NoProbe == [vec |-> "", l |-> <<>>, value |-> 0, written |-> FALSE]

\* CounterVec.WithLabelValues(l...).Add(v) / .Inc()
CounterAdd(vec, l, v) ==
    IF l \in DOMAIN vec THEN [vec EXCEPT ![l] = @ + v] ELSE vec @@ (l :> v)

\* HistogramVec.WithLabelValues(l...).Observe(v)
HistObserve(vec, l, v) ==
    IF l \in DOMAIN vec
    THEN [vec EXCEPT ![l] = [count |-> @.count + 1, sum |-> @.sum + v]]
    ELSE vec @@ (l :> [count |-> 1, sum |-> v])

\* GaugeVec.WithLabelValues(l...).Set(v)
GaugeSet(vec, l, v) ==
    IF l \in DOMAIN vec THEN [vec EXCEPT ![l] = v] ELSE vec @@ (l :> v)


----------------------------------------------------------------------------
(* The response writer.  status = 0: no header sent yet.  captured is the  *)
(* status field of the middleware's responseWriter wrapper.                *)

NewWriter == [status |-> 0, body |-> <<>>, captured |-> StatusOK]

\* http.ResponseWriter.WriteHeader of the server's writer: every call after
\* the header went out is ignored
SendHeader(w, code) == [w EXCEPT !.status = IF @ = 0 THEN code ELSE @]

\* responseWriter.WriteHeader: records the code and hands it to the embedded
\* writer
WriteHeader(w, code) == [SendHeader(w, code) EXCEPT !.captured = code]

\* responseWriter.Flush: hands over to the embedded writer; nothing is held
\* back in this model, so the bytes the client has are the same
Flush(w) == w

\* faulty variant of Write: the bytes go out twice
WriteTwice(w, s) ==
    [w EXCEPT !.status = IF @ = 0 THEN StatusOK ELSE @, !.body = @ \o <<s, s>>]

\* ResponseWriter.Write (promoted from the embedded writer): the first write
\* sends the header with 200
Write(w, s) ==
    [w EXCEPT !.status = IF @ = 0 THEN StatusOK ELSE @, !.body = Append(@, s)]

\* http.Error(w, text, code): WriteHeader(code), then Fprintln(w, text)
HttpError(w, text, code) == Write(WriteHeader(w, code), text \o "\n")

\* the server ends a response no handler wrote to with 200 and no body
Finish(w) == [w EXCEPT !.status = IF @ = 0 THEN StatusOK ELSE @]

----------------------------------------------------------------------------
(* Inputs.                                                                 *)

ChatPath == "/chat"

MsgHello == <<"h", "e", "l", "l", "o", " ", "y", "o", "u">>
MsgMarkdown == <<"s", "a", "y", " ", "I", "n", " ", "M", "a", "r", "k", "d",
                 "o", "w", "n">>
ModelGpt == <<"g", "p", "t">>

\* the zero ChatRequest (var req ChatRequest)
ZeroRequest == [Messages |-> <<>>, Message |-> <<>>, Format |-> "", Model |-> <<>>]
PlainRequest == [ZeroRequest EXCEPT !.Message = MsgHello]
OverrideRequest ==
    [Messages |-> << [Role |-> "user", Content |-> MsgHello],
                     [Role |-> "assistant", Content |-> MsgMarkdown],
                     [Role |-> "system", Content |-> MsgHello] >>,
     Message |-> MsgMarkdown, Format |-> "", Model |-> ModelGpt]

Malformed == [valid |-> FALSE, req |-> ZeroRequest]
Json(r) == [valid |-> TRUE, req |-> r]

\* chunks of the upstream stream: no choices, or one choice with a delta
NoChoices == [n |-> 0, content |-> ""]
Delta(c) == [n |-> 1, content |-> c]

Methods == {"OPTIONS", "GET", "POST"}
Bodies == {Malformed, Json(PlainRequest)}
Chunks == {Delta(""), Delta("a")}
RelayBodies == {Malformed, Json(PlainRequest), Json(OverrideRequest)}
RelayChunks == {NoChoices, Delta(""), Delta("a"), Delta("b")}

----------------------------------------------------------------------------
(* handleChat, pure parts.                                                 *)

\* faulty variant of Decode: a malformed body is taken for an empty request
DecodeLenient(body) == [err |-> FALSE, req |-> body.req]

\* json.NewDecoder(r.Body).Decode(&req)
Decode(body) == [err |-> ~body.valid, req |-> body.req]

ResolveModel(req) == IF req.Model # <<>> THEN req.Model ELSE defaultModel

RECURSIVE SumContentTokens(_)
SumContentTokens(msgs) ==
    IF msgs = <<>> THEN 0
    ELSE (Len(Head(msgs).Content) \div 4) + SumContentTokens(Tail(msgs))

\* faulty variant of InputTokens: the prior messages are left out
InputTokensMessageOnly(req) == Len(req.Message) \div 4

InputTokens(req) == SumContentTokens(req.Messages) + (Len(req.Message) \div 4)

\* faulty variant of UseMarkdown: the phrases are matched as written
UseMarkdownExactCase(req) ==
    \/ req.Format = "markdown"
    \/ Contains(req.Message, StrInMarkdown)
    \/ Contains(req.Message, StrUsingMarkdown)

UseMarkdown(req) ==
    \/ req.Format = "markdown"
    \/ Contains(ToLower(req.Message), StrInMarkdown)
    \/ Contains(ToLower(req.Message), StrUsingMarkdown)

\* the switch on msg.Role leaves the zero message for any other role
ToParamMessage(msg) ==
    CASE msg.Role = "user" -> [role |-> "user", content |-> msg.Content]
      [] msg.Role = "assistant" -> [role |-> "assistant", content |-> msg.Content]
      [] OTHER -> [role |-> "", content |-> <<>>]

SystemMarkdownMsg == [role |-> "system", content |-> StrMarkdown]

\* faulty variant of OutboundMessages: a message of another role is left out
OutboundMessagesKnownRoles(req) ==
    LET known == SelectSeq(req.Messages, LAMBDA m : m.Role \in {"user", "assistant"})
        prior == [k \in 1..Len(known) |-> ToParamMessage(known[k])]
        withSys == IF UseMarkdown(req) THEN <<SystemMarkdownMsg>> \o prior ELSE prior
    IN  Append(withSys, [role |-> "user", content |-> req.Message])

OutboundMessages(req) ==
    LET prior == [k \in 1..Len(req.Messages) |-> ToParamMessage(req.Messages[k])]
        withSys == IF UseMarkdown(req) THEN <<SystemMarkdownMsg>> \o prior ELSE prior
    IN  Append(withSys, [role |-> "user", content |-> req.Message])

IsLlama(model) ==
    \/ Contains(ToLower(model), StrLlama)
    \/ Contains(apiBaseURL, StrLlamaCpp)

\* faulty variant of HasContent: an empty delta counts as content
HasAnyChoice(chunk) == chunk.n > 0

\* the relay forwards and counts a chunk that has a non-empty delta
HasContent(chunk) == chunk.n > 0 /\ chunk.content # ""

\* faulty variant of IsFirstToken: every non-empty delta sets the time anew
IsFirstTokenAgain(ftt, chunk) == chunk.n > 0 /\ chunk.content # ""

IsFirstToken(ftt, chunk) == ftt = 0 /\ chunk.n > 0 /\ chunk.content # ""

\* faulty variant of StreamEndResp: the stream error is dropped
StreamEndRespSilent(w, err) == w

\* the error check after the loop
StreamEndResp(w, err) ==
    IF err THEN HttpError(w, "Internal server error", StatusInternalServerError)
    ELSE w

\* one registry update of a request
Op(m, l, v, by) == [m |-> m, l |-> l, v |-> v, by |-> by]


----------------------------------------------------------------------------
(* The state after main() has built the registry.                          *)

InitCore ==
    /\ now = 1
    /\ pc = [i \in Reqs |-> "idle"]
    /\ request = [i \in Reqs |-> [Method |-> "", Path |-> "", Body |-> Malformed]]
    /\ resp = [i \in Reqs |-> NewWriter]
    /\ mwStart = [i \in Reqs |-> 0]
    /\ modelToUse = [i \in Reqs |-> <<>>]
    /\ start = [i \in Reqs |-> 0]
    /\ firstTokenTime = [i \in Reqs |-> 0]
    /\ outputTokens = [i \in Reqs |-> 0]
    /\ param = [i \in Reqs |-> [Messages |-> <<>>, Model |-> <<>>]]
    /\ streamOpens = [i \in Reqs |-> 0]
    /\ received = [i \in Reqs |-> <<>>]
    /\ writeFailed = [i \in Reqs |-> FALSE]
    /\ streamErr = [i \in Reqs |-> FALSE]
    /\ ops = [i \in Reqs |-> <<>>]
    /\ requestCounter = NoSeries
    /\ requestDuration = NoSeries
    /\ chatTokensCounter = NoSeries
    /\ modelLatency = NoSeries
    /\ activeRequests = 0
    /\ firstTokenLatency = NoSeries
    /\ llamacppPromptEvalTime = NoSeries
    /\ llamacppTokensPerSecond = NoSeries
    /\ errorCounter = NoSeries
    /\ llamacppContextSize = NoSeries
    /\ llamacppMemoryPerToken = NoSeries
    /\ llamacppThreadsUsed = NoSeries
    /\ llamacppBatchSize = NoSeries
    /\ fatalMsg = ""
    /\ probe = NoProbe

\* both servers listen
Init ==
    /\ InitCore
    /\ defaultModel = EnvModel
    /\ apiBaseURL = EnvBaseURL
    /\ proc = "running"

\* values of MODEL and BASE_URL
ModelUpper == <<"T", "i", "n", "y", "L", "L", "a", "M", "A">>
UrlLlamaCpp == <<"/", "/">> \o StrLlamaCpp \o <<":", "8">>
UrlUpper == <<"/", "/", "L", "l", "a", "m", "a", ".", "C", "P", "P", ":", "8">>
EnvModels == {EnvModel, ModelGpt, ModelUpper}
EnvBaseURLs == {EnvBaseURL, UrlLlamaCpp, UrlUpper}

\* both servers listen, under any of these configurations
InitConfig ==
    /\ InitCore
    /\ defaultModel \in EnvModels
    /\ apiBaseURL \in EnvBaseURLs
    /\ proc = "running"

\* main() is about to start the two servers
InitProc ==
    /\ InitCore
    /\ defaultModel = EnvModel
    /\ apiBaseURL = EnvBaseURL
    /\ proc = "starting"

chatLocals == <<modelToUse, start, firstTokenTime, outputTokens, param,
                streamOpens, received, writeFailed, streamErr>>
chatSeries == <<chatTokensCounter, modelLatency, firstTokenLatency,
                llamacppPromptEvalTime, llamacppTokensPerSecond>>

\* time passes
Tick ==
    /\ now < MaxTime
    /\ now' = now + 1
    /\ UNCHANGED <<reqVars, regVars, cfgVars, sideVars>>

----------------------------------------------------------------------------
(* MetricsMiddleware.                                                      *)

\* faulty variant of GaugeInc: a request is counted twice on arrival
GaugeIncTwice(g) == g + 2

\* activeRequests.Inc()
GaugeInc(g) == g + 1

\* faulty variant of GaugeDec: the decrement is lost
GaugeDecLost(g) == g

\* activeRequests.Dec()
GaugeDec(g) == g - 1

\* a request arrives: start, the wrapping writer, activeRequests.Inc()
MwArrive(i, method, path, body) ==
    /\ proc \in {"mainUp", "running", "signalled"}
    /\ pc[i] = "idle"
    /\ pc' = [pc EXCEPT ![i] = "mw"]
    /\ request' = [request EXCEPT ![i] =
                      [Method |-> method, Path |-> path, Body |-> body]]
    /\ mwStart' = [mwStart EXCEPT ![i] = now]
    /\ resp' = [resp EXCEPT ![i] = NewWriter]
    /\ activeRequests' = GaugeInc(activeRequests)
    /\ ops' = [ops EXCEPT ![i] =
                  Append(@, Op("activeRequests", <<>>, 1, "middleware"))]
    /\ UNCHANGED <<sideVars, cfgVars, now, chatLocals, chatSeries, requestCounter, requestDuration>>

\* a request for /chat arrives
MwEnter(i, method, body) == MwArrive(i, method, ChatPath, body)

\* the handler has returned: activeRequests.Dec(), then the request counter
\* with the captured status and the duration; the server ends the response
MwExitTimes(i, n) ==
    LET r == request[i]
        cl == <<r.Method, r.Path, Itoa(resp[i].captured)>>
        dl == <<r.Method, r.Path>>
        d == now - mwStart[i]
    IN  /\ pc[i] = "ret"
        /\ pc' = [pc EXCEPT ![i] = "done"]
        /\ activeRequests' = GaugeDec(activeRequests)
        /\ requestCounter' = CounterAdd(requestCounter, cl, n)
        /\ requestDuration' = HistObserve(requestDuration, dl, d)
        /\ resp' = [resp EXCEPT ![i] = Finish(@)]
        /\ ops' = [ops EXCEPT ![i] = @ \o
                      << Op("activeRequests", <<>>, -1, "middleware") >> \o
                      [k \in 1..n |-> Op("requestCounter", cl, 1, "middleware")] \o
                      << Op("requestDuration", dl, d, "middleware") >>]
        /\ UNCHANGED <<sideVars, cfgVars, now, request, mwStart, chatLocals, chatSeries>>

\* faulty variant of MwExit: the request is counted twice
MwExitTwice(i) == MwExitTimes(i, 2)

MwExit(i) == MwExitTimes(i, 1)


----------------------------------------------------------------------------
(* handleChat.                                                             *)

\* OPTIONS pre-flight: a bare 200
ChatOptions(i) ==
    /\ pc[i] = "mw"
    /\ request[i].Path = ChatPath
    /\ request[i].Method = "OPTIONS"
    /\ resp' = [resp EXCEPT ![i] = WriteHeader(@, StatusOK)]
    /\ pc' = [pc EXCEPT ![i] = "ret"]
    /\ UNCHANGED <<sideVars, cfgVars, now, request, mwStart, chatLocals, ops, regVars>>

\* any other method than POST
ChatMethodNotAllowed(i) ==
    /\ pc[i] = "mw"
    /\ request[i].Path = ChatPath
    /\ request[i].Method \notin {"OPTIONS", "POST"}
    /\ resp' = [resp EXCEPT ![i] =
                   HttpError(@, "Method not allowed", StatusMethodNotAllowed)]
    /\ pc' = [pc EXCEPT ![i] = "ret"]
    /\ UNCHANGED <<sideVars, cfgVars, now, request, mwStart, chatLocals, ops, regVars>>

\* the body does not decode: 400 and the request counter with that status
ChatBadRequest(i) ==
    LET r == request[i]
        cl == <<r.Method, r.Path, Itoa(StatusBadRequest)>>
    IN  /\ pc[i] = "mw"
        /\ r.Path = ChatPath
        /\ r.Method = "POST"
        /\ Decode(r.Body).err
        /\ resp' = [resp EXCEPT ![i] =
                       HttpError(@, "Invalid request body", StatusBadRequest)]
        /\ requestCounter' = CounterAdd(requestCounter, cl, 1)
        /\ ops' = [ops EXCEPT ![i] =
                      Append(@, Op("requestCounter", cl, 1, "handler"))]
        /\ pc' = [pc EXCEPT ![i] = "ret"]
        /\ UNCHANGED <<sideVars, cfgVars, now, request, mwStart, chatLocals, chatSeries,
                       requestDuration, activeRequests>>

\* the body decodes: resolve the model, count the input tokens, build the
\* outbound messages and open the upstream stream
ChatOpenRelay(i) ==
    LET r == request[i]
        req == Decode(r.Body).req
        m == ResolveModel(req)
        il == <<"input", m>>
    IN  /\ pc[i] = "mw"
        /\ r.Path = ChatPath
        /\ r.Method = "POST"
        /\ ~Decode(r.Body).err
        /\ modelToUse' = [modelToUse EXCEPT ![i] = m]
        /\ chatTokensCounter' = CounterAdd(chatTokensCounter, il, InputTokens(req))
        /\ ops' = [ops EXCEPT ![i] =
                      Append(@, Op("chatTokensCounter", il, InputTokens(req), "handler"))]
        /\ start' = [start EXCEPT ![i] = now]
        /\ firstTokenTime' = [firstTokenTime EXCEPT ![i] = 0]
        /\ outputTokens' = [outputTokens EXCEPT ![i] = 0]
        /\ param' = [param EXCEPT ![i] =
                        [Messages |-> OutboundMessages(req), Model |-> m]]
        /\ streamOpens' = [streamOpens EXCEPT ![i] = @ + 1]
        /\ pc' = [pc EXCEPT ![i] = "stream"]
        /\ UNCHANGED <<sideVars, now, request, resp, mwStart, received, writeFailed,
                       streamErr, requestCounter, requestDuration, modelLatency,
                       activeRequests, firstTokenLatency, llamacppPromptEvalTime,
                       llamacppTokensPerSecond>>

\* faulty variant of ChatOpen: the request's model becomes the default
ChatOpenSticky(i) ==
    /\ ChatOpenRelay(i)
    /\ defaultModel' = ResolveModel(Decode(request[i].Body).req)
    /\ UNCHANGED apiBaseURL

\* modelToUse is a local of the request: the configuration stays
ChatOpen(i) == ChatOpenRelay(i) /\ UNCHANGED cfgVars

\* faulty variant of SinceFirstToken: measured from the start of the stream
SinceStreamStart(i) == now - start[i]

\* time.Since(firstTokenTime)
SinceFirstToken(i) == now - firstTokenTime[i]

\* float64(outputTokens), the amount added to the output-token counter
AddedOutput(i) == outputTokens[i]

\* one turn of the relay loop: stream.Next() delivered chunk; writeOK tells
\* whether the write to the client succeeds
ChatNext(i, chunk, writeOK) ==
    LET m == modelToUse[i]
        first == IsFirstToken(firstTokenTime[i], chunk)
        evalObs == first /\ IsLlama(m)
        promptEvalTime == now - start[i]
    IN  /\ pc[i] = "stream"
        /\ HasContent(chunk) \/ writeOK
        /\ received' = [received EXCEPT ![i] = Append(@, chunk)]
        /\ firstTokenTime' = [firstTokenTime EXCEPT ![i] = IF first THEN now ELSE @]
        /\ llamacppPromptEvalTime' =
              IF evalObs
              THEN HistObserve(llamacppPromptEvalTime, <<m>>, promptEvalTime)
              ELSE llamacppPromptEvalTime
        /\ ops' = [ops EXCEPT ![i] =
                      IF evalObs
                      THEN Append(@, Op("llamacppPromptEvalTime", <<m>>,
                                        promptEvalTime, "handler"))
                      ELSE @]
        /\ outputTokens' = [outputTokens EXCEPT ![i] =
                               IF HasContent(chunk) THEN @ + 1 ELSE @]
        /\ resp' = [resp EXCEPT ![i] =
                       IF HasContent(chunk) /\ writeOK
                       THEN Flush(Write(@, chunk.content)) ELSE @]
        /\ writeFailed' = [writeFailed EXCEPT ![i] = HasContent(chunk) /\ ~writeOK]
        /\ pc' = [pc EXCEPT ![i] =
                     IF HasContent(chunk) /\ ~writeOK THEN "ret" ELSE "stream"]
        /\ UNCHANGED <<sideVars, cfgVars, now, request, mwStart, modelToUse, start, param,
                       streamOpens, streamErr, requestCounter, requestDuration,
                       chatTokensCounter, modelLatency, activeRequests,
                       firstTokenLatency, llamacppTokensPerSecond>>

\* stream.Next() returned false; err tells whether stream.Err() is set
ChatStreamEndBody(i, err) ==
    LET r == request[i]
        m == modelToUse[i]
        totalTime == SinceFirstToken(i)
        tps == IsLlama(m) /\ totalTime > 0 /\ outputTokens[i] > 0
        tpsVal == [num |-> outputTokens[i], den |-> totalTime]
        dl == <<r.Method, r.Path>>
        cl == <<r.Method, r.Path, "200">>
        ol == <<"output", m>>
        ll == <<m, "inference">>
        d == now - start[i]
        seen == firstTokenTime[i] # 0
        ttft == firstTokenTime[i] - start[i]
    IN  /\ pc[i] = "stream"
        /\ streamErr' = [streamErr EXCEPT ![i] = err]
        /\ llamacppTokensPerSecond' =
              IF tps THEN GaugeSet(llamacppTokensPerSecond, <<m>>, tpsVal)
              ELSE llamacppTokensPerSecond
        /\ requestDuration' = HistObserve(requestDuration, dl, d)
        /\ requestCounter' = CounterAdd(requestCounter, cl, 1)
        /\ chatTokensCounter' = CounterAdd(chatTokensCounter, ol, AddedOutput(i))
        /\ modelLatency' = HistObserve(modelLatency, ll, d)
        /\ firstTokenLatency' =
              IF seen THEN HistObserve(firstTokenLatency, <<m>>, ttft)
              ELSE firstTokenLatency
        /\ ops' = [ops EXCEPT ![i] = @ \o
                      (IF tps THEN <<Op("llamacppTokensPerSecond", <<m>>, tpsVal, "handler")>>
                       ELSE <<>>) \o
                      << Op("requestDuration", dl, d, "handler"),
                         Op("requestCounter", cl, 1, "handler"),
                         Op("chatTokensCounter", ol, AddedOutput(i), "handler"),
                         Op("modelLatency", ll, d, "handler") >> \o
                      (IF seen THEN <<Op("firstTokenLatency", <<m>>, ttft, "handler")>>
                       ELSE <<>>)]
        /\ resp' = [resp EXCEPT ![i] = StreamEndResp(@, err)]
        /\ pc' = [pc EXCEPT ![i] = "ret"]
        /\ UNCHANGED <<sideVars, cfgVars, now, request, mwStart, modelToUse, start, firstTokenTime,
                       outputTokens, param, streamOpens, received, writeFailed,
                       activeRequests, llamacppPromptEvalTime>>

\* faulty variant of ChatStreamEnd: a failed stream is opened again
ChatStreamEndRetry(i, err) ==
    IF err /\ streamOpens[i] < 2
    THEN /\ pc[i] = "stream"
         /\ streamOpens' = [streamOpens EXCEPT ![i] = @ + 1]
         /\ UNCHANGED <<sideVars, cfgVars, now, pc, request, resp, mwStart, modelToUse, start,
                        firstTokenTime, outputTokens, param, received,
                        writeFailed, streamErr, ops, regVars>>
    ELSE ChatStreamEndBody(i, err)

ChatStreamEnd(i, err) == ChatStreamEndBody(i, err)

----------------------------------------------------------------------------
(* Reading the registry.  A read with label values goes through            *)
(* GetMetricWithLabelValues, which creates the series when it is not there; *)
(* each helper is a value and the vector the read leaves behind.           *)

\* a float64 that is a quotient; 0.0 is Ratio(0, 1), d = 0 is NaN or Inf
Ratio(n, d) == [num |-> n, den |-> d]
IsZero(r) == r.num = 0 /\ r.den # 0
NoObservations == [count |-> 0, sum |-> 0]

\* GetMetricWithLabelValues(l...) on a vector with n label names
Touch(vec, n, l, zero) ==
    IF Len(l) = n /\ l \notin DOMAIN vec THEN vec @@ (l :> zero) ELSE vec

RECURSIVE SumOver(_, _)
SumOver(vec, S) ==
    IF S = {} THEN 0
    ELSE LET l == CHOOSE x \in S : TRUE IN vec[l] + SumOver(vec, S \ {l})

\* faulty variant of getCounterValue: the label values are not looked at
getCounterValueAnyLabels(counter, labelValues) == SumOver(counter, DOMAIN counter)

\* the value getCounterValue returns: one series, or the sum of all series
getCounterValue(counter, labelValues) ==
    IF Len(labelValues) > 0
    THEN IF labelValues \in DOMAIN counter THEN counter[labelValues] ELSE 0
    ELSE SumOver(counter, DOMAIN counter)

\* the vector after getCounterValue
getCounterValueSeries(counter, n, labelValues) ==
    IF Len(labelValues) > 0 THEN Touch(counter, n, labelValues, 0) ELSE counter

getGaugeValue(gauge) == gauge

getGaugeValueWithLabels(gauge, labelValues) ==
    IF Len(labelValues) = 0 THEN 0
    ELSE IF labelValues \in DOMAIN gauge THEN gauge[labelValues] ELSE 0

getGaugeValueWithLabelsSeries(gauge, n, labelValues) ==
    IF Len(labelValues) = 0 THEN gauge ELSE Touch(gauge, n, labelValues, 0)

\* faulty variant of getHistogramValueWithLabels: sum / count also without
\* samples
getHistogramMeanUnguarded(histogram, labelValues) ==
    IF labelValues \in DOMAIN histogram
    THEN Ratio(histogram[labelValues].sum, histogram[labelValues].count)
    ELSE Ratio(0, 1)

\* sum / count of the histogram, 0 without samples
getHistogramValueWithLabels(histogram, labelValues) ==
    IF Len(labelValues) = 0 THEN Ratio(0, 1)
    ELSE IF labelValues \in DOMAIN histogram /\ histogram[labelValues].count > 0
         THEN Ratio(histogram[labelValues].sum, histogram[labelValues].count)
         ELSE Ratio(0, 1)

getHistogramValueWithLabelsSeries(histogram, n, labelValues) ==
    IF Len(labelValues) = 0 THEN histogram
    ELSE Touch(histogram, n, labelValues, NoObservations)

\* faulty variant of calculateErrorRate: the division is not guarded
calculateErrorRateUnguarded ==
    Ratio(getCounterValue(errorCounter, <<>>), getCounterValue(requestCounter, <<>>))

\* faulty variant of calculateErrorRate: one error type only is counted
calculateErrorRateOneType ==
    LET totalErrors == getCounterValue(errorCounter, <<"timeout">>)
        totalRequests == getCounterValue(requestCounter, <<>>)
    IN  IF totalRequests = 0 THEN Ratio(0, 1) ELSE Ratio(totalErrors, totalRequests)

calculateErrorRate ==
    LET totalErrors == getCounterValue(errorCounter, <<>>)
        totalRequests == getCounterValue(requestCounter, <<>>)
    IN  IF totalRequests = 0 THEN Ratio(0, 1) ELSE Ratio(totalErrors, totalRequests)

\* a fixed 0.5, whatever the histogram holds
getAverageResponseTime(histogram) == Ratio(1, 2)

\* a *LlamaCppMetrics is the empty sequence (nil, null in the JSON) or a
\* sequence holding the one record pointed to
NullJson == <<>>

getLlamaCppMetrics(model) ==
    LET contextSize == getGaugeValueWithLabels(llamacppContextSize, <<model>>)
        mean == getHistogramValueWithLabels(llamacppPromptEvalTime, <<model>>)
    IN  IF contextSize = 0 THEN NullJson
        ELSE << [ContextSize |-> contextSize,
              PromptEvalTime |-> Ratio(mean.num * 1000, mean.den),
              TokensPerSecond |->
                  getGaugeValueWithLabels(llamacppTokensPerSecond, <<model>>),
              MemoryPerToken |->
                  getGaugeValueWithLabels(llamacppMemoryPerToken, <<model>>),
              ThreadsUsed |-> getGaugeValueWithLabels(llamacppThreadsUsed, <<model>>),
              BatchSize |-> getGaugeValueWithLabels(llamacppBatchSize, <<model>>),
              ModelType |-> "llama.cpp"] >>

----------------------------------------------------------------------------
(* The other endpoints of the mux.                                         *)

SummaryPath == "/metrics/summary"
ErrorPath == "/metrics/error"
HealthPath == "/health"

\* pre-flight of /metrics/summary and /metrics/error: a bare 200
PreflightOptions(i) ==
    /\ pc[i] = "mw"
    /\ request[i].Path \in {SummaryPath, ErrorPath}
    /\ request[i].Method = "OPTIONS"
    /\ resp' = [resp EXCEPT ![i] = WriteHeader(@, StatusOK)]
    /\ pc' = [pc EXCEPT ![i] = "ret"]
    /\ UNCHANGED <<sideVars, cfgVars, now, request, mwStart, chatLocals, ops, regVars>>

\* /metrics/summary, any method but OPTIONS: read the registry, encode
Summary(i) ==
    LET m == defaultModel
        llama == IsLlama(m)
        llamaCppMetrics == IF llama THEN getLlamaCppMetrics(m) ELSE NullJson
        all == llama /\ getGaugeValueWithLabels(llamacppContextSize, <<m>>) # 0
        read(g) == IF all THEN getGaugeValueWithLabelsSeries(g, 1, <<m>>) ELSE g
        afterOutput == getCounterValueSeries(chatTokensCounter, 2, <<"output", m>>)
        summary ==
            [totalRequests |-> getCounterValue(requestCounter, <<>>),
             averageResponseTime |-> getAverageResponseTime(requestDuration),
             tokensGenerated |-> getCounterValue(chatTokensCounter, <<"output", m>>),
             tokensProcessed |-> getCounterValue(chatTokensCounter, <<"input", m>>),
             activeUsers |-> getGaugeValue(activeRequests),
             errorRate |-> calculateErrorRate,
             llamaCppMetrics |-> llamaCppMetrics]
    IN  /\ pc[i] = "mw"
        /\ request[i].Path = SummaryPath
        /\ request[i].Method # "OPTIONS"
        /\ llamacppContextSize' =
              IF llama THEN getGaugeValueWithLabelsSeries(llamacppContextSize, 1, <<m>>)
              ELSE llamacppContextSize
        /\ llamacppPromptEvalTime' =
              IF all
              THEN getHistogramValueWithLabelsSeries(llamacppPromptEvalTime, 1, <<m>>)
              ELSE llamacppPromptEvalTime
        /\ llamacppTokensPerSecond' = read(llamacppTokensPerSecond)
        /\ llamacppMemoryPerToken' = read(llamacppMemoryPerToken)
        /\ llamacppThreadsUsed' = read(llamacppThreadsUsed)
        /\ llamacppBatchSize' = read(llamacppBatchSize)
        /\ chatTokensCounter' = getCounterValueSeries(afterOutput, 2, <<"input", m>>)
        /\ resp' = [resp EXCEPT ![i] = Write(@, summary)]
        /\ pc' = [pc EXCEPT ![i] = "ret"]
        /\ UNCHANGED <<cfgVars, now, request, mwStart, chatLocals, ops,
                       requestCounter, requestDuration, modelLatency,
                       activeRequests, firstTokenLatency, errorCounter, proc,
                       fatalMsg, probe>>

\* /metrics/error with a body that does not decode
ErrorBadRequest(i) ==
    /\ pc[i] = "mw"
    /\ request[i].Path = ErrorPath
    /\ request[i].Method # "OPTIONS"
    /\ Decode(request[i].Body).err
    /\ resp' = [resp EXCEPT ![i] =
                   HttpError(@, "Invalid request body", StatusBadRequest)]
    /\ pc' = [pc EXCEPT ![i] = "ret"]
    /\ UNCHANGED <<sideVars, cfgVars, now, request, mwStart, chatLocals, ops, regVars>>

\* faulty variant of ErrorInc: a type already counted is not counted again
ErrorIncOnce(vec, errorType) ==
    IF <<errorType>> \in DOMAIN vec THEN vec ELSE vec @@ (<<errorType>> :> 1)

\* errorCounter.WithLabelValues(errorLog.ErrorType).Inc()
ErrorInc(vec, errorType) == CounterAdd(vec, <<errorType>>, 1)

\* /metrics/error: only the error type reaches the registry
ErrorReport(i) ==
    LET errorLog == Decode(request[i].Body).req
    IN  /\ pc[i] = "mw"
        /\ request[i].Path = ErrorPath
        /\ request[i].Method # "OPTIONS"
        /\ ~Decode(request[i].Body).err
        /\ errorCounter' = ErrorInc(errorCounter, errorLog.ErrorType)
        /\ ops' = [ops EXCEPT ![i] = Append(@,
                      Op("errorCounter", <<errorLog.ErrorType>>, 1, "handler"))]
        /\ resp' = [resp EXCEPT ![i] = WriteHeader(@, StatusOK)]
        /\ pc' = [pc EXCEPT ![i] = "ret"]
        /\ UNCHANGED <<cfgVars, now, request, mwStart, chatLocals, regVars,
                       llamacppContextSize, llamacppMemoryPerToken,
                       llamacppThreadsUsed, llamacppBatchSize, proc, fatalMsg,
                       probe>>

Str1B == <<"1", "B">>
Str7B == <<"7", "B">>
Str13B == <<"1", "3", "B">>
Str70B == <<"7", "0", "B">>

\* /health, any method: 200 and the resolved model
Health(i) ==
    LET m == defaultModel
        isLlamaCpp == IsLlama(m)
        contextSize == getGaugeValueWithLabels(llamacppContextSize, <<m>>)
        contextWindow ==
            IF contextSize > 0 THEN contextSize
            ELSE IF Contains(m, Str1B) THEN 2048
            ELSE IF Contains(m, Str7B) THEN 4096
            ELSE IF Contains(m, Str13B) THEN 4096
            ELSE IF Contains(m, Str70B) THEN 8192
            ELSE 4096
        modelInfo ==
            IF isLlamaCpp
            THEN [model |-> m, modelType |-> "llama.cpp", contextWindow |-> contextWindow]
            ELSE [model |-> m]
    IN  /\ pc[i] = "mw"
        /\ request[i].Path = HealthPath
        /\ llamacppContextSize' =
              IF isLlamaCpp
              THEN getGaugeValueWithLabelsSeries(llamacppContextSize, 1, <<m>>)
              ELSE llamacppContextSize
        /\ resp' = [resp EXCEPT ![i] =
                       Write(WriteHeader(@, StatusOK),
                             [status |-> "ok", model_info |-> modelInfo])]
        /\ pc' = [pc EXCEPT ![i] = "ret"]
        /\ UNCHANGED <<cfgVars, now, request, mwStart, chatLocals, ops, regVars,
                       errorCounter, llamacppMemoryPerToken, llamacppThreadsUsed,
                       llamacppBatchSize, proc, fatalMsg, probe>>

----------------------------------------------------------------------------
(* Specifications.                                                         *)

\* NumReqs requests against /chat, interleaved arbitrarily
Next ==
    \E i \in Reqs :
        \/ \E method \in Methods, body \in Bodies : MwEnter(i, method, body)
        \/ ChatOptions(i)
        \/ ChatMethodNotAllowed(i)
        \/ ChatBadRequest(i)
        \/ ChatOpen(i)
        \/ \E chunk \in Chunks, writeOK \in BOOLEAN :
              Len(received[i]) < MaxChunks /\ ChatNext(i, chunk, writeOK)
        \/ \E err \in BOOLEAN : ChatStreamEnd(i, err)
        \/ MwExit(i)

Spec == Init /\ [][Next]_vars

\* one request followed alone, with longer streams and the clock running
NextRelay ==
    \/ Tick
    \/ \E method \in Methods, body \in RelayBodies : MwEnter(1, method, body)
    \/ ChatOptions(1)
    \/ ChatMethodNotAllowed(1)
    \/ ChatBadRequest(1)
    \/ ChatOpen(1)
    \/ \E chunk \in RelayChunks, writeOK \in BOOLEAN :
          Len(received[1]) < MaxRelayChunks /\ ChatNext(1, chunk, writeOK)
    \/ \E err \in BOOLEAN : ChatStreamEnd(1, err)
    \/ MwExit(1)

SpecRelay == Init /\ [][NextRelay]_vars

LogPath == "/metrics/log"
LlamaCppPath == "/metrics/llamacpp"

\* pre-flight of /metrics/log and /metrics/llamacpp: a bare 200
IngestOptions(i) ==
    /\ pc[i] = "mw"
    /\ request[i].Path \in {LogPath, LlamaCppPath}
    /\ request[i].Method = "OPTIONS"
    /\ resp' = [resp EXCEPT ![i] = WriteHeader(@, StatusOK)]
    /\ pc' = [pc EXCEPT ![i] = "ret"]
    /\ UNCHANGED <<sideVars, cfgVars, now, request, mwStart, chatLocals, ops, regVars>>

\* /metrics/log and /metrics/llamacpp with a body that does not decode
IngestBadRequest(i) ==
    /\ pc[i] = "mw"
    /\ request[i].Path \in {LogPath, LlamaCppPath}
    /\ request[i].Method # "OPTIONS"
    /\ Decode(request[i].Body).err
    /\ resp' = [resp EXCEPT ![i] =
                   HttpError(@, "Invalid request body", StatusBadRequest)]
    /\ pc' = [pc EXCEPT ![i] = "ret"]
    /\ UNCHANGED <<sideVars, cfgVars, now, request, mwStart, chatLocals, ops, regVars>>

\* x / 1000.0, for the multiples of 1000 that the bodies below carry
MsToSeconds(ms) == ms \div 1000

\* /metrics/log: of all the body holds, the first-token time alone is used
LogCore(i) ==
    LET metricLog == Decode(request[i].Body).req
        m == defaultModel
        seen == metricLog.FirstTokenMs > 0
        v == MsToSeconds(metricLog.FirstTokenMs)
    IN  /\ pc[i] = "mw"
        /\ request[i].Path = LogPath
        /\ request[i].Method # "OPTIONS"
        /\ ~Decode(request[i].Body).err
        /\ firstTokenLatency' =
              IF seen THEN HistObserve(firstTokenLatency, <<m>>, v)
              ELSE firstTokenLatency
        /\ ops' = [ops EXCEPT ![i] =
                      IF seen THEN Append(@, Op("firstTokenLatency", <<m>>, v, "handler"))
                      ELSE @]
        /\ resp' = [resp EXCEPT ![i] = WriteHeader(@, StatusOK)]
        /\ pc' = [pc EXCEPT ![i] = "ret"]
        /\ UNCHANGED <<sideVars, cfgVars, now, request, mwStart, chatLocals,
                       requestCounter, requestDuration, modelLatency,
                       activeRequests, llamacppPromptEvalTime,
                       llamacppTokensPerSecond>>

\* faulty variant of Log: the reported output tokens are counted as well
LogCounting(i) ==
    /\ LogCore(i)
    /\ chatTokensCounter' =
          CounterAdd(chatTokensCounter, <<"output", defaultModel>>,
                     Decode(request[i].Body).req.TokensOut)

Log(i) == LogCore(i) /\ UNCHANGED chatTokensCounter

\* /metrics/llamacpp: every field goes to the series of the default model
LlamaCpp(i) ==
    LET llamaCppLog == Decode(request[i].Body).req
        l == <<defaultModel>>
        pe == MsToSeconds(llamaCppLog.PromptEvalTime)
    IN  /\ pc[i] = "mw"
        /\ request[i].Path = LlamaCppPath
        /\ request[i].Method # "OPTIONS"
        /\ ~Decode(request[i].Body).err
        /\ llamacppContextSize' = GaugeSet(llamacppContextSize, l, llamaCppLog.ContextSize)
        /\ llamacppPromptEvalTime' = HistObserve(llamacppPromptEvalTime, l, pe)
        /\ llamacppTokensPerSecond' =
              GaugeSet(llamacppTokensPerSecond, l, llamaCppLog.TokensPerSecond)
        /\ llamacppMemoryPerToken' =
              GaugeSet(llamacppMemoryPerToken, l, llamaCppLog.MemoryPerToken)
        /\ llamacppThreadsUsed' = GaugeSet(llamacppThreadsUsed, l, llamaCppLog.ThreadsUsed)
        /\ llamacppBatchSize' = GaugeSet(llamacppBatchSize, l, llamaCppLog.BatchSize)
        /\ ops' = [ops EXCEPT ![i] = @ \o
                      << Op("llamacppContextSize", l, llamaCppLog.ContextSize, "handler"),
                         Op("llamacppPromptEvalTime", l, pe, "handler"),
                         Op("llamacppTokensPerSecond", l, llamaCppLog.TokensPerSecond,
                            "handler"),
                         Op("llamacppMemoryPerToken", l, llamaCppLog.MemoryPerToken,
                            "handler"),
                         Op("llamacppThreadsUsed", l, llamaCppLog.ThreadsUsed, "handler"),
                         Op("llamacppBatchSize", l, llamaCppLog.BatchSize, "handler") >>]
        /\ resp' = [resp EXCEPT ![i] = WriteHeader(@, StatusOK)]
        /\ pc' = [pc EXCEPT ![i] = "ret"]
        /\ UNCHANGED <<cfgVars, now, request, mwStart, chatLocals, requestCounter,
                       requestDuration, chatTokensCounter, modelLatency,
                       activeRequests, firstTokenLatency, errorCounter, proc,
                       fatalMsg, probe>>

ModelsPath == "/models"

\* pre-flight of /models: a bare 200
ModelsOptions(i) ==
    /\ pc[i] = "mw"
    /\ request[i].Path = ModelsPath
    /\ request[i].Method = "OPTIONS"
    /\ resp' = [resp EXCEPT ![i] = WriteHeader(@, StatusOK)]
    /\ pc' = [pc EXCEPT ![i] = "ret"]
    /\ UNCHANGED <<sideVars, cfgVars, now, request, mwStart, chatLocals, ops, regVars>>

ModelsMethodNotAllowed(i) ==
    /\ pc[i] = "mw"
    /\ request[i].Path = ModelsPath
    /\ request[i].Method \notin {"OPTIONS", "GET"}
    /\ resp' = [resp EXCEPT ![i] =
                   HttpError(@, "Method not allowed", StatusMethodNotAllowed)]
    /\ pc' = [pc EXCEPT ![i] = "ret"]
    /\ UNCHANGED <<sideVars, cfgVars, now, request, mwStart, chatLocals, ops, regVars>>

\* models.HandleListModels: the models docker lists, or the fallback list
ModelsList(i, listed) ==
    /\ pc[i] = "mw"
    /\ request[i].Path = ModelsPath
    /\ request[i].Method = "GET"
    /\ resp' = [resp EXCEPT ![i] =
                   Write(@, IF listed THEN "models" ELSE "fallbackModels")]
    /\ pc' = [pc EXCEPT ![i] = "ret"]
    /\ UNCHANGED <<sideVars, cfgVars, now, request, mwStart, chatLocals, ops, regVars>>

AllowOrigin == "Access-Control-Allow-Origin: *"
AllowMethodsPost == "Access-Control-Allow-Methods: POST, OPTIONS"
AllowMethodsGet == "Access-Control-Allow-Methods: GET, OPTIONS"
AllowHeaders == "Access-Control-Allow-Headers: Content-Type"

\* the cross-origin headers the handler of a path sets before anything else
CorsHeaders(path) ==
    CASE path \in {ChatPath, LogPath, ErrorPath, LlamaCppPath} ->
             {AllowOrigin, AllowMethodsPost, AllowHeaders}
      [] path \in {ModelsPath, SummaryPath} ->
             {AllowOrigin, AllowMethodsGet, AllowHeaders}
      [] path = HealthPath -> {AllowOrigin}
      [] OTHER -> {}

\* bodies of /metrics/log
MetricLogOf(tokensIn, tokensOut, responseTimeMs, firstTokenMs) ==
    [MessageID |-> "m1", TokensIn |-> tokensIn, TokensOut |-> tokensOut,
     ResponseTimeMs |-> responseTimeMs, FirstTokenMs |-> firstTokenMs]
MetricLogs == {MetricLogOf(0, 0, 0, 0), MetricLogOf(7, 9, 3000, 0),
               MetricLogOf(7, 9, 3000, 2000)}

\* bodies of /metrics/llamacpp
LlamaCppLogOf(contextSize) ==
    [ContextSize |-> contextSize, PromptEvalTime |-> 2000,
     TokensPerSecond |-> Ratio(5, 1), MemoryPerToken |-> 16, ThreadsUsed |-> 4,
     BatchSize |-> 8, ModelType |-> "llama.cpp"]
LlamaCppLogs == {LlamaCppLogOf(0), LlamaCppLogOf(2048)}

\* bodies of /metrics/error
ErrorLogOf(errorType) ==
    [ErrorType |-> errorType, StatusCode |-> 500, InputLength |-> 0,
     Timestamp |-> ""]
ErrorTypes == {"timeout", "upstream"}

\* the calls made on the mux: method, path, body
Call(method, path, body) == [method |-> method, path |-> path, body |-> body]
ApiCalls ==
    {Call("GET", SummaryPath, Malformed), Call("OPTIONS", SummaryPath, Malformed),
     Call("GET", HealthPath, Malformed), Call("OPTIONS", ErrorPath, Malformed),
     Call("POST", ErrorPath, Malformed),
     Call("POST", ChatPath, Json(PlainRequest)),
     Call("POST", ChatPath, Json(OverrideRequest))}
    \cup {Call("POST", ErrorPath, Json(ErrorLogOf(t))) : t \in ErrorTypes}

\* concurrent requests on every endpoint that reads or labels by the model
NextApi ==
    \E i \in Reqs :
        \/ \E c \in ApiCalls : MwArrive(i, c.method, c.path, c.body)
        \/ PreflightOptions(i)
        \/ Summary(i)
        \/ ErrorBadRequest(i)
        \/ ErrorReport(i)
        \/ Health(i)
        \/ ChatOpen(i)
        \/ \E writeOK \in BOOLEAN :
              Len(received[i]) < MaxChunks /\ ChatNext(i, Delta("a"), writeOK)
        \/ \E err \in BOOLEAN : ChatStreamEnd(i, err)
        \/ MwExit(i)

SpecApi == Init /\ [][NextApi]_vars

IngestCalls ==
    {Call("OPTIONS", LogPath, Malformed), Call("POST", LlamaCppPath, Malformed),
     Call("GET", SummaryPath, Malformed),
     Call("POST", ErrorPath, Json(ErrorLogOf("timeout"))),
     Call("POST", ChatPath, Json(PlainRequest)),
     Call("POST", ChatPath, Json(OverrideRequest))}
    \cup {Call("POST", LogPath, Json(b)) : b \in MetricLogs}
    \cup {Call("POST", LlamaCppPath, Json(b)) : b \in LlamaCppLogs}

\* concurrent requests on the ingestion endpoints, the summary and /chat
NextIngest ==
    \E i \in Reqs :
        \/ \E c \in IngestCalls : MwArrive(i, c.method, c.path, c.body)
        \/ IngestOptions(i)
        \/ IngestBadRequest(i)
        \/ Log(i)
        \/ LlamaCpp(i)
        \/ Summary(i)
        \/ ErrorReport(i)
        \/ ChatOpen(i)
        \/ Len(received[i]) < MaxChunks /\ ChatNext(i, Delta("a"), TRUE)
        \/ ChatStreamEnd(i, FALSE)
        \/ MwExit(i)

SpecIngest == Init /\ [][NextIngest]_vars

MuxPaths == {ChatPath, ModelsPath, HealthPath, SummaryPath, LogPath, ErrorPath,
             LlamaCppPath}

\* every method on every path of the mux, with a body that does not decode
NextCors ==
    \E i \in Reqs :
        \/ \E method \in Methods, path \in MuxPaths :
              MwArrive(i, method, path, Malformed)
        \/ ChatOptions(i)
        \/ ChatMethodNotAllowed(i)
        \/ ChatBadRequest(i)
        \/ ModelsOptions(i)
        \/ ModelsMethodNotAllowed(i)
        \/ \E listed \in BOOLEAN : ModelsList(i, listed)
        \/ Health(i)
        \/ PreflightOptions(i)
        \/ Summary(i)
        \/ ErrorBadRequest(i)
        \/ IngestOptions(i)
        \/ IngestBadRequest(i)
        \/ MwExit(i)

SpecCors == Init /\ [][NextCors]_vars

\* one request on any path of the mux, by any way out of its handler
MwCalls ==
    {Call(method, path, Malformed) : method \in Methods, path \in MuxPaths}
    \cup {Call(method, ChatPath, Json(r)) :
              method \in Methods, r \in {PlainRequest, OverrideRequest}}
    \cup {Call("POST", ErrorPath, Json(ErrorLogOf(t))) : t \in ErrorTypes}
    \cup {Call("POST", LogPath, Json(b)) : b \in MetricLogs}
    \cup {Call("POST", LlamaCppPath, Json(b)) : b \in LlamaCppLogs}

NextMw ==
    \/ \E c \in MwCalls : MwArrive(1, c.method, c.path, c.body)
    \/ ChatOptions(1)
    \/ ChatMethodNotAllowed(1)
    \/ ChatBadRequest(1)
    \/ ChatOpen(1)
    \/ \E chunk \in Chunks, writeOK \in BOOLEAN :
          Len(received[1]) < MaxChunks /\ ChatNext(1, chunk, writeOK)
    \/ \E err \in BOOLEAN : ChatStreamEnd(1, err)
    \/ ModelsOptions(1)
    \/ ModelsMethodNotAllowed(1)
    \/ \E listed \in BOOLEAN : ModelsList(1, listed)
    \/ Health(1)
    \/ PreflightOptions(1)
    \/ Summary(1)
    \/ ErrorBadRequest(1)
    \/ IngestOptions(1)
    \/ IngestBadRequest(1)
    \/ ErrorReport(1)
    \/ Log(1)
    \/ LlamaCpp(1)
    \/ MwExit(1)

SpecMw == Init /\ [][NextMw]_vars

\* the summary after /chat and /metrics/llamacpp, under each configuration
NextLlamaSummary ==
    \E i \in Reqs :
        \/ \E c \in {Call("GET", SummaryPath, Malformed),
                      Call("POST", ChatPath, Json(PlainRequest))}
                     \cup {Call("POST", LlamaCppPath, Json(b)) : b \in LlamaCppLogs} :
              MwArrive(i, c.method, c.path, c.body)
        \/ LlamaCpp(i)
        \/ Summary(i)
        \/ ChatOpen(i)
        \/ Len(received[i]) < MaxChunks /\ ChatNext(i, Delta("a"), TRUE)
        \/ ChatStreamEnd(i, FALSE)
        \/ MwExit(i)

SpecLlamaSummary == InitConfig /\ [][NextLlamaSummary]_vars

\* some update of the series l of the vector called name has been made
Written(name, l) ==
    \E i \in Reqs : \E k \in 1..Len(ops[i]) : ops[i][k].m = name /\ ops[i][k].l = l

Probed(name, l, v) ==
    [vec |-> name, l |-> l, value |-> v, written |-> Written(name, l)]

\* label tuples to read: written by some request, never written, too short
CounterLabels == {<<"output", EnvModel>>, <<"output", ModelGpt>>, <<"output">>}
ModelLabels == {<<EnvModel>>, <<ModelGpt>>, <<>>}

\* getCounterValue(chatTokensCounter, l...)
ProbeCounter(l) ==
    /\ probe' = Probed("chatTokensCounter", l, getCounterValue(chatTokensCounter, l))
    /\ chatTokensCounter' = getCounterValueSeries(chatTokensCounter, 2, l)
    /\ UNCHANGED <<now, reqVars, cfgVars, requestCounter, requestDuration,
                   modelLatency, activeRequests, firstTokenLatency,
                   llamacppPromptEvalTime, llamacppTokensPerSecond, errorCounter,
                   llamacppContextSize, llamacppMemoryPerToken,
                   llamacppThreadsUsed, llamacppBatchSize, proc, fatalMsg>>

\* getGaugeValueWithLabels(llamacppContextSize, l...)
ProbeGauge(l) ==
    /\ probe' = Probed("llamacppContextSize", l,
                       getGaugeValueWithLabels(llamacppContextSize, l))
    /\ llamacppContextSize' =
          getGaugeValueWithLabelsSeries(llamacppContextSize, 1, l)
    /\ UNCHANGED <<now, reqVars, cfgVars, requestCounter, requestDuration,
                   chatTokensCounter, modelLatency, activeRequests,
                   firstTokenLatency, llamacppPromptEvalTime,
                   llamacppTokensPerSecond, errorCounter, llamacppMemoryPerToken,
                   llamacppThreadsUsed, llamacppBatchSize, proc, fatalMsg>>

\* getHistogramValueWithLabels(modelLatency, l...)
ProbeHistogram(l) ==
    /\ probe' = Probed("modelLatency", l,
                       getHistogramValueWithLabels(modelLatency, l))
    /\ modelLatency' = getHistogramValueWithLabelsSeries(modelLatency, 1, l)
    /\ UNCHANGED <<now, reqVars, cfgVars, requestCounter, requestDuration,
                   chatTokensCounter, activeRequests, firstTokenLatency,
                   llamacppPromptEvalTime, llamacppTokensPerSecond, errorCounter,
                   llamacppContextSize, llamacppMemoryPerToken,
                   llamacppThreadsUsed, llamacppBatchSize, proc, fatalMsg>>

\* the read helpers applied to a registry that one /chat request fills
NextRead ==
    \/ \E r \in {PlainRequest, OverrideRequest} : MwEnter(1, "POST", Json(r))
    \/ ChatOpen(1)
    \/ Len(received[1]) < MaxChunks /\ ChatNext(1, Delta("a"), TRUE)
    \/ ChatStreamEnd(1, FALSE)
    \/ MwExit(1)
    \/ \E l \in CounterLabels : ProbeCounter(l)
    \/ \E l \in ModelLabels : ProbeGauge(l)
    \/ \E l \in ModelLabels : ProbeHistogram(l)

SpecRead == Init /\ [][NextRead]_vars

\* one /chat request under each configuration of model and base URL
NextLlama ==
    \/ Tick
    \/ \E r \in {PlainRequest, OverrideRequest} : MwEnter(1, "POST", Json(r))
    \/ ChatOpen(1)
    \/ \E chunk \in Chunks, writeOK \in BOOLEAN :
          Len(received[1]) < MaxChunks /\ ChatNext(1, chunk, writeOK)
    \/ \E err \in BOOLEAN : ChatStreamEnd(1, err)
    \/ MwExit(1)

SpecLlama == InitConfig /\ [][NextLlama]_vars

----------------------------------------------------------------------------
(* main(): the two servers, the signal, the shutdown.  proc is "starting",  *)
(* "metricsUp", "mainUp", "running" (both listen), "signalled", "draining"  *)
(* (server.Shutdown waits for the requests in flight), "mainDown",          *)
(* "exited" (main returned) or "fatal" (log.Fatal: exit status 1).          *)

lifeFrame ==
    <<now, reqVars, regVars, cfgVars, errorCounter, llamacppContextSize,
      llamacppMemoryPerToken, llamacppThreadsUsed, llamacppBatchSize, probe>>

\* faulty variant of ServeFails: ErrServerClosed is taken for a failure
ServeFailsAlways(err) == err # "nil"

\* err != nil && err != http.ErrServerClosed
ServeFails(err) == err # "nil" /\ err # "ErrServerClosed"

Fatal(msg) == proc' = "fatal" /\ fatalMsg' = msg
Goes(p) == proc' = p /\ UNCHANGED fatalMsg

InFlight == \E i \in Reqs : pc[i] \in {"mw", "stream", "ret"}

\* metricsServer.ListenAndServe(): listens, or returns the bind error
StartMetrics(bound) ==
    /\ proc \in {"starting", "mainUp"}
    /\ IF ~bound /\ ServeFails("EADDRINUSE")
       THEN Fatal("Failed to start metrics server")
       ELSE Goes(IF proc = "starting" THEN "metricsUp" ELSE "running")
    /\ UNCHANGED lifeFrame

\* server.ListenAndServe(): listens, or returns the bind error
StartMain(bound) ==
    /\ proc \in {"starting", "metricsUp"}
    /\ IF ~bound /\ ServeFails("EADDRINUSE")
       THEN Fatal("Failed to start server")
       ELSE Goes(IF proc = "starting" THEN "mainUp" ELSE "running")
    /\ UNCHANGED lifeFrame

\* SIGINT or SIGTERM arrives on quit
Signal ==
    /\ proc = "running"
    /\ Goes("signalled")
    /\ UNCHANGED lifeFrame

\* server.Shutdown(ctx) closes the listener: ListenAndServe returns
\* ErrServerClosed in its goroutine
ShutdownMain ==
    /\ proc = "signalled"
    /\ IF ServeFails("ErrServerClosed")
       THEN Fatal("Failed to start server")
       ELSE Goes("draining")
    /\ UNCHANGED lifeFrame

\* server.Shutdown(ctx) returns nil: no request is in flight any more
Drained ==
    /\ proc = "draining"
    /\ ~InFlight
    /\ Goes("mainDown")
    /\ UNCHANGED lifeFrame

\* server.Shutdown(ctx) returns the context's error: 10 s have passed with a
\* request still in flight
DrainTimeout ==
    /\ proc = "draining"
    /\ InFlight
    /\ Fatal("Server forced to shutdown")
    /\ UNCHANGED lifeFrame

\* metricsServer.Shutdown(ctx), with or without an error
ShutdownMetrics(err) ==
    /\ proc = "mainDown"
    /\ IF err THEN Fatal("Metrics server forced to shutdown") ELSE Goes("exited")
    /\ UNCHANGED lifeFrame

Alive == proc \notin {"exited", "fatal"}

\* the process from start to exit, with one /chat request and its errors
NextProc ==
    \/ \E bound \in BOOLEAN : StartMetrics(bound)
    \/ \E bound \in BOOLEAN : StartMain(bound)
    \/ Signal
    \/ ShutdownMain
    \/ Drained
    \/ DrainTimeout
    \/ \E err \in BOOLEAN : ShutdownMetrics(err)
    \/ \E method \in Methods, body \in Bodies : MwEnter(1, method, body)
    \/ Alive /\ ChatOptions(1)
    \/ Alive /\ ChatMethodNotAllowed(1)
    \/ Alive /\ ChatBadRequest(1)
    \/ Alive /\ ChatOpen(1)
    \/ \E chunk \in Chunks, writeOK \in BOOLEAN :
          Alive /\ Len(received[1]) < MaxChunks /\ ChatNext(1, chunk, writeOK)
    \/ \E err \in BOOLEAN : Alive /\ ChatStreamEnd(1, err)
    \/ Alive /\ MwExit(1)

SpecProc == InitProc /\ [][NextProc]_vars

\* messages that ask for markdown, and messages that do not
MsgUsingUpper ==
    <<"U", "S", "I", "N", "G", " ", "M", "A", "R", "K", "D", "O", "W", "N", "!">>
MsgBothPhrases == StrInMarkdown \o <<",", " ">> \o StrUsingMarkdown
MsgTwoSpaces == <<"i", "n", " ", " ", "m", "a", "r", "k", "d", "o", "w", "n">>
AskingMessages == {MsgMarkdown, MsgUsingUpper, MsgBothPhrases, StrInMarkdown}
OtherMessages == {MsgHello, StrMarkdown, MsgTwoSpaces, <<>>}
Formats == {"", "markdown", "Markdown", "text"}
Histories ==
    { <<>>,
      << [Role |-> "system", Content |-> MsgMarkdown] >>,
      << [Role |-> "user", Content |-> MsgMarkdown],
         [Role |-> "assistant", Content |-> StrUsingMarkdown] >> }

BuildRequests ==
    { [Messages |-> h, Message |-> m, Format |-> f, Model |-> <<>>] :
          h \in Histories, m \in AskingMessages \cup OtherMessages, f \in Formats }

\* the outbound message list, built for each request of BuildRequests
NextBuild ==
    \/ \E r \in BuildRequests : MwEnter(1, "POST", Json(r))
    \/ ChatOpen(1)

SpecBuild == Init /\ [][NextBuild]_vars


----------------------------------------------------------------------------
(* Vocabulary of the properties.                                           *)

Returned(i) == pc[i] \in {"ret", "done"}
AllDone == \A i \in Reqs : pc[i] = "done"
Quiescent == \A i \in Reqs : pc[i] \in {"idle", "done"}

\* the request reached the relay: POST with a body that decoded
Relayed(i) == pc[i] \in {"stream", "ret", "done"} /\ streamOpens[i] > 0

\* the registry updates of request i chosen by Test
OpsWhere(i, Test(_)) == SelectSeq(ops[i], Test)
HandlerOps(i, m) == OpsWhere(i, LAMBDA o : o.m = m /\ o.by = "handler")
OutputOps(i) ==
    OpsWhere(i, LAMBDA o : o.m = "chatTokensCounter" /\ o.l[1] = "output")

\* the non-empty content deltas among the chunks received, in order
ContentDeltas(chunks) ==
    LET kept == SelectSeq(chunks, LAMBDA c : c.n > 0 /\ c.content # "")
    IN  [k \in 1..Len(kept) |-> kept[k].content]

Front(s) == SubSeq(s, 1, Len(s) - 1)

\* what the relay loop wrote: the body without the text http.Error appends
\* after a stream error
ChunksWritten(i) ==
    IF Returned(i) /\ streamErr[i] THEN Front(resp[i].body) ELSE resp[i].body

----------------------------------------------------------------------------
(* Properties.                                                             *)

\* C1: on every exit path of a decoded POST /chat request the handler's
\* terminal accounting (duration, request counter, output tokens, model
\* latency) has been performed exactly once when the handler has returned.
C1_TerminalAccountingOnce ==
    \A i \in Reqs :
        (Relayed(i) /\ Returned(i)) =>
            /\ Len(HandlerOps(i, "requestDuration")) = 1
            /\ Len(HandlerOps(i, "requestCounter")) = 1
            /\ Len(OutputOps(i)) = 1
            /\ Len(HandlerOps(i, "modelLatency")) = 1

\* C2: once all NumReqs requests have completed, the request counter summed
\* over all label combinations has grown by exactly NumReqs.
C2_RequestsCountedOnce ==
    AllDone => getCounterValue(requestCounter, <<>>) = NumReqs

\* C3: whenever no request is in flight, whatever the interleaving and the
\* exit paths were, the active-requests gauge is 0.
C3_GaugeBackAtZero == Quiescent => activeRequests = 0

C3_Witness ==
    /\ AllDone
    /\ \E i, j \in Reqs : i # j /\ writeFailed[i] /\ streamErr[j]
    /\ activeRequests = 0

\* C4: after an upstream error that follows at least one written chunk, the
\* client has received exactly the chunks forwarded before the error.
C4_NothingAfterError ==
    \A i \in Reqs :
        (Returned(i) /\ streamErr[i] /\ ContentDeltas(received[i]) # <<>>) =>
            resp[i].body = ContentDeltas(received[i])

\* C5: an upstream error before any content chunk was written ends the
\* response with status 500.
C5_ErrorBeforeOutputIs500 ==
    \A i \in Reqs :
        (Returned(i) /\ streamErr[i] /\ ContentDeltas(received[i]) = <<>>) =>
            resp[i].status = StatusInternalServerError

C5_Witness ==
    \E i \in Reqs :
        /\ pc[i] = "done" /\ streamErr[i]
        /\ Len(received[i]) >= 2 /\ ContentDeltas(received[i]) = <<>>
        /\ resp[i].status = StatusInternalServerError

\* C6: the status label of the handler's request-counter increment equals the
\* status the client finally receives, on normal end and on upstream error.
C6_CounterStatusIsFinalStatus ==
    \A i \in Reqs :
        (pc[i] = "done" /\ Relayed(i) /\ ~writeFailed[i]) =>
            \A k \in 1..Len(HandlerOps(i, "requestCounter")) :
                HandlerOps(i, "requestCounter")[k].l[3] = Itoa(resp[i].status)

\* the series an undecodable POST /chat may touch according to the claim:
\* the request counter alone, the gauge being back where it was
OnlyErrorCounter(o) == o.m \in {"requestCounter", "activeRequests"}

\* C7 (as claimed): an undecodable POST /chat gets 400, opens no stream and
\* updates nothing but the request counter; in particular not the
\* request-duration histogram.
C7_DecodeFailureOnlyErrorCounter ==
    \A i \in Reqs :
        (pc[i] = "done" /\ request[i].Method = "POST" /\ ~request[i].Body.valid) =>
            /\ resp[i].status = StatusBadRequest
            /\ streamOpens[i] = 0
            /\ Len(OpsWhere(i, OnlyErrorCounter)) = Len(ops[i])

\* C7 (amended): an undecodable POST /chat gets 400, opens no stream and
\* updates only the request counter (the handler's increment carrying status
\* 400, and the middleware's increment) and, once, the request-duration
\* histogram (the middleware's observation); the gauge goes up and down
\* again; token counters, model-latency, first-token and llama.cpp series
\* are not touched.
C7_DecodeFailureCounterAndDuration ==
    \A i \in Reqs :
        (pc[i] = "done" /\ request[i].Method = "POST" /\ ~request[i].Body.valid) =>
            /\ resp[i].status = StatusBadRequest
            /\ streamOpens[i] = 0
            /\ param[i].Messages = <<>>
            /\ \A k \in 1..Len(ops[i]) :
                  \/ ops[i][k].m = "activeRequests"
                  \/ /\ ops[i][k].m = "requestCounter"
                     /\ ops[i][k].by = "handler"
                     /\ ops[i][k].l = <<"POST", ChatPath, "400">>
                  \/ /\ ops[i][k].m = "requestCounter"
                     /\ ops[i][k].by = "middleware"
                  \/ /\ ops[i][k].m = "requestDuration"
                     /\ ops[i][k].by = "middleware"
            /\ Len(HandlerOps(i, "requestCounter")) = 1
            /\ Len(OpsWhere(i, LAMBDA o : o.m = "requestDuration")) = 1
            /\ Len(OpsWhere(i, LAMBDA o : o.m = "activeRequests" /\ o.v = 1)) = 1
            /\ Len(OpsWhere(i, LAMBDA o : o.m = "activeRequests" /\ o.v = -1)) = 1

C7_Witness ==
    \E i \in Reqs :
        /\ pc[i] = "done" /\ request[i].Method = "POST" /\ ~request[i].Body.valid
        /\ resp[i].status = StatusBadRequest
        /\ <<"POST", ChatPath, "400">> \in DOMAIN requestCounter

\* C8: a request opens the upstream stream at most once, and a stream that
\* failed has ended the relay without a second opening.
C8_StreamOpenedAtMostOnce ==
    \A i \in Reqs :
        /\ streamOpens[i] <= 1
        /\ streamErr[i] => (Returned(i) /\ streamOpens[i] = 1)

C8_Witness ==
    \E i \in Reqs : pc[i] = "done" /\ streamErr[i] /\ streamOpens[i] = 1

\* C9: the chunks the relay has written are the non-empty content deltas
\* received so far, in order and once each; a delta whose write failed ends
\* the request and is the only one not delivered.
C9_ChunksForwardedInOrder ==
    \A i \in Reqs :
        Relayed(i) =>
            ChunksWritten(i) =
                IF writeFailed[i] THEN Front(ContentDeltas(received[i]))
                ELSE ContentDeltas(received[i])

C9_Witness ==
    \E i \in Reqs :
        /\ pc[i] = "stream"
        /\ received[i] = <<Delta("a"), Delta(""), Delta("b")>>
        /\ resp[i].body = <<"a", "b">>

\* C10: a stream without any content delta adds exactly 0 to the output-token
\* counter and records no time-to-first-token observation.
C10_EmptyStreamCountsNothing ==
    \A i \in Reqs :
        (Relayed(i) /\ Returned(i) /\ ContentDeltas(received[i]) = <<>>) =>
            /\ Len(OutputOps(i)) = 1
            /\ OutputOps(i)[1].v = 0
            /\ OpsWhere(i, LAMBDA o : o.m = "firstTokenLatency") = <<>>
            /\ DOMAIN firstTokenLatency = {}

C10_Witness ==
    \E i \in Reqs :
        /\ pc[i] = "done" /\ Relayed(i)
        /\ received[i] = <<NoChoices, Delta("")>>
        /\ getCounterValue(chatTokensCounter, <<"output", modelToUse[i]>>) = 0
        /\ <<"output", modelToUse[i]>> \in DOMAIN chatTokensCounter

----------------------------------------------------------------------------
(* C11 .. C20.                                                             *)

\* request i asked for the summary and has its answer
SummaryAnswered(i) ==
    /\ Returned(i)
    /\ request[i].Path = SummaryPath
    /\ request[i].Method = "GET"

\* the summary request i is the only traffic the process has seen
FirstTraffic(i) == \A j \in Reqs \ {i} : pc[j] = "idle"

SummaryOf(i) == resp[i].body[1]

FreshTotals(s) ==
    /\ s.totalRequests = 0
    /\ s.tokensGenerated = 0
    /\ s.tokensProcessed = 0
    /\ IsZero(s.errorRate)
    /\ s.llamaCppMetrics = NullJson

Reported(t) ==
    {i \in Reqs : /\ Returned(i)
                  /\ request[i].Path = ErrorPath
                  /\ request[i].Method = "POST"
                  /\ request[i].Body = Json(ErrorLogOf(t))}

SeriesValue(vec, l) == IF l \in DOMAIN vec THEN vec[l] ELSE 0

\* C12: n reports with error type X, one after the other or at once, raise
\* the counter of X by exactly n (none is merged with an earlier one), and the
\* counter of every other type by nothing
C12_ErrorReportsCountedEach ==
    /\ \A t \in ErrorTypes :
           SeriesValue(errorCounter, <<t>>) = Cardinality(Reported(t))
    /\ DOMAIN errorCounter \subseteq {<<t>> : t \in ErrorTypes}

C12_Witness ==
    /\ Cardinality(Reported("timeout")) = NumReqs
    /\ errorCounter[<<"timeout">>] = NumReqs
    /\ <<"upstream">> \notin DOMAIN errorCounter

\* every vector of the registry
registryVars ==
    <<regVars, errorCounter, llamacppContextSize, llamacppMemoryPerToken,
      llamacppThreadsUsed, llamacppBatchSize>>

\* the step in which the summary handler of request i reads the registry
SummaryReads(i) ==
    /\ pc[i] = "mw" /\ pc'[i] = "ret"
    /\ request[i].Path = SummaryPath
    /\ request[i].Method # "OPTIONS"

\* C13: a read of the registry by GET /metrics/summary and its helpers
\* leaves the registry as it was: the same series, each with the same value,
\* also when the label tuple read was never written
C13_ReadsLeaveRegistry ==
    [][\A i \in Reqs : SummaryReads(i) => UNCHANGED registryVars]_vars

\* the value read is 0.0: a histogram mean is a quotient
ReadZero == IF probe.vec = "modelLatency" THEN IsZero(probe.value)
            ELSE probe.value = 0

SystemAt(msgs) == {k \in 1..Len(msgs) : msgs[k].role = "system"}

AsksMarkdown(req) == req.Format = "markdown" \/ req.Message \in AskingMessages

\* C15: the outbound list starts with exactly one system instruction when the
\* format is "markdown" or the message holds "in markdown" or "using
\* markdown" in any case, one also when several of these hold, and has none
\* when none holds
C15_OneSystemMessageIffMarkdown ==
    Relayed(1) =>
        LET req == request[1].Body.req
            out == param[1].Messages
        IN  IF AsksMarkdown(req)
            THEN /\ SystemAt(out) = {1}
                 /\ out[1] = SystemMarkdownMsg
                 /\ Len(out) = Len(req.Messages) + 2
            ELSE /\ SystemAt(out) = {}
                 /\ Len(out) = Len(req.Messages) + 1

\* format and both phrases at once, after a history that asks as well
C15_Witness ==
    /\ Relayed(1)
    /\ request[1].Body.req.Format = "markdown"
    /\ request[1].Body.req.Message = MsgBothPhrases
    /\ Len(request[1].Body.req.Messages) = 2
    /\ SystemAt(param[1].Messages) = {1}

StartFailures == {"Failed to start metrics server", "Failed to start server"}

\* some error has met request i on its way
RequestFailed(i) ==
    \/ writeFailed[i]
    \/ streamErr[i]
    \/ Returned(i) /\ resp[i].status \in {StatusBadRequest, StatusMethodNotAllowed}

\* C16 as stated: the process exits fatally only when a listening port
\* cannot be bound at startup; no error of a request, of the upstream or of
\* the shutdown does that
C16_FatalOnlyAtStartup == proc = "fatal" => fatalMsg \in StartFailures

\* C16 as the code has it: no step of a request handler ends the process,
\* whatever error it meets, and the process exits fatally only when a server
\* fails to start or when one of the two Shutdown calls returns an error
C16_FatalOnlyAtStartupOrShutdown ==
    [][/\ pc' # pc => proc' = proc
       /\ proc' = "fatal" /\ proc # "fatal" =>
             \/ /\ proc \in {"starting", "metricsUp", "mainUp"}
                /\ fatalMsg' \in StartFailures
             \/ /\ proc = "draining" /\ InFlight
                /\ fatalMsg' = "Server forced to shutdown"
             \/ /\ proc = "mainDown"
                /\ fatalMsg' = "Metrics server forced to shutdown"]_vars

\* the request failed upstream and the process ran on to a normal exit
C16_Witness ==
    /\ proc = "exited"
    /\ pc[1] = "done" /\ streamErr[1] /\ RequestFailed(1)

RECURSIVE SumValues(_)
SumValues(os) == IF os = <<>> THEN 0 ELSE Head(os).v + SumValues(Tail(os))

\* C17: what a /chat request has added to the output-token counter when it
\* has ended is the number of non-empty content deltas it received
C17_OutputCountIsDeltasReceived ==
    \A i \in Reqs :
        Relayed(i) /\ Returned(i) =>
            SumValues(OutputOps(i)) = Len(ContentDeltas(received[i]))

\* the stream of request i has come to its end (stream.Next() false)
StreamCompleted(i) == Relayed(i) /\ Returned(i) /\ ~writeFailed[i]

\* when it did: the model-latency observation is the time since start
CompletedAt(i) == start[i] + HandlerOps(i, "modelLatency")[1].v

LlamaMatching(model, baseURL) ==
    \/ Contains(ToLower(model), StrLlama)
    \/ Contains(ToLower(baseURL), StrLlamaCpp)

\* C19: a request that has received its first non-empty delta has recorded
\* one prompt-evaluation observation for its model when the model name or the
\* base URL matches "llama" / "llama.cpp" without regard to case, and none
\* when neither matches
C19_PromptEvalIffLlamaMatching ==
    \A i \in Reqs :
        Relayed(i) /\ ContentDeltas(received[i]) # <<>> =>
            LET seen == HandlerOps(i, "llamacppPromptEvalTime")
            IN  IF LlamaMatching(modelToUse[i], apiBaseURL)
                THEN Len(seen) = 1 /\ seen[1].l = <<modelToUse[i]>>
                ELSE seen = <<>>

\* the model label of a registry update made by handleChat
ModelLabelOf(o) ==
    IF o.m = "chatTokensCounter" THEN o.l[2] ELSE o.l[1]

ModelLabelled ==
    {"chatTokensCounter", "modelLatency", "firstTokenLatency",
     "llamacppPromptEvalTime", "llamacppTokensPerSecond"}

\* C20: the model field of a chat request, when not empty, is the model of
\* that request alone - of its outbound call and of the labels of its
\* metrics; an empty field gives the default; and the default model of the
\* process, which later requests and the other endpoints see, stays what it
\* was at start
C20_ModelOverrideIsPerRequest ==
    /\ defaultModel = EnvModel
    /\ \A i \in Reqs :
          Relayed(i) =>
              LET req == request[i].Body.req
                  m == IF req.Model # <<>> THEN req.Model ELSE EnvModel
              IN  /\ modelToUse[i] = m
                  /\ param[i].Model = m
                  /\ \A k \in 1..Len(ops[i]) :
                        ops[i][k].m \in ModelLabelled => ModelLabelOf(ops[i][k]) = m
    /\ \A i \in Reqs :
          Returned(i) /\ request[i].Path = HealthPath =>
              resp[i].body[1].model_info.model = EnvModel

\* one request with an override has ended, another without one runs under
\* the default
C20_Witness ==
    \E i, j \in Reqs :
        /\ pc[i] = "done" /\ Relayed(i) /\ modelToUse[i] = ModelGpt
        /\ \E k \in 1..Len(ops[i]) : ops[i][k].l = <<"output", ModelGpt>>
        /\ Relayed(j) /\ request[j].Body.req.Model = <<>>
        /\ modelToUse[j] = EnvModel

----------------------------------------------------------------------------
(* C21 .. C30.                                                             *)

\* every vector of the registry but the first-token-latency histogram
allButFirstTokenLatency ==
    <<requestCounter, requestDuration, chatTokensCounter, modelLatency,
      activeRequests, llamacppPromptEvalTime, llamacppTokensPerSecond,
      errorCounter, llamacppContextSize, llamacppMemoryPerToken,
      llamacppThreadsUsed, llamacppBatchSize>>

\* a step of the /metrics/log request i: arrival, handler or return
LogRequestStep(i) == pc'[i] # pc[i] /\ request'[i].Path = LogPath

\* the step in which the handler of /metrics/log runs for request i
LogHandled(i) == LogRequestStep(i) /\ pc[i] = "mw"

\* C21 as stated: a POST /metrics/log changes nothing in the registry but
\* the first-token-latency histogram
C21_LogChangesOnlyFirstTokenLatency ==
    [][\A i \in Reqs : LogRequestStep(i) => UNCHANGED allButFirstTokenLatency]_vars

\* C21 as the code has it: the handler of /metrics/log changes nothing but
\* the first-token-latency histogram of the default model, by one
\* observation when the reported first-token time is positive; the token
\* counts and the response time reported reach no series; the middleware
\* around it moves the gauge, counts the request and observes its duration
\* as for any request, and leaves every other series alone
C21_LogHandlerChangesOnlyFirstTokenLatency ==
    [][\A i \in Reqs :
          /\ LogHandled(i) =>
                LET body == request[i].Body
                IN  /\ UNCHANGED allButFirstTokenLatency
                    /\ firstTokenLatency' =
                          IF body.valid /\ request[i].Method # "OPTIONS"
                             /\ body.req.FirstTokenMs > 0
                          THEN HistObserve(firstTokenLatency, <<EnvModel>>,
                                           body.req.FirstTokenMs \div 1000)
                          ELSE firstTokenLatency
          /\ LogRequestStep(i) /\ ~LogHandled(i) =>
                UNCHANGED <<chatTokensCounter, modelLatency, firstTokenLatency,
                            llamacppPromptEvalTime, llamacppTokensPerSecond,
                            errorCounter, llamacppContextSize,
                            llamacppMemoryPerToken, llamacppThreadsUsed,
                            llamacppBatchSize>>]_vars

\* a report with token counts and times has been taken and observed
C21_Witness ==
    \E i \in Reqs :
        /\ pc[i] = "done" /\ request[i].Path = LogPath
        /\ request[i].Body = Json(MetricLogOf(7, 9, 3000, 2000))
        /\ firstTokenLatency = (<<EnvModel>> :> [count |-> 1, sum |-> 2])
        /\ chatTokensCounter = NoSeries

\* C22: every endpoint sets permissive cross-origin headers and answers an
\* OPTIONS pre-flight with status 200 and an empty body, without doing what
\* it does for other methods
C22_PreflightEverywhere ==
    \A i \in Reqs :
        Returned(i) =>
            /\ AllowOrigin \in CorsHeaders(request[i].Path)
            /\ request[i].Method = "OPTIONS" =>
                  /\ resp[i].status = StatusOK
                  /\ resp[i].body = <<>>
                  /\ \A k \in 1..Len(ops[i]) : ops[i][k].by = "middleware"

\* the requests inside the wrapped handler: after Inc(), before Dec()
InHandler == {i \in Reqs : pc[i] \in {"mw", "stream", "ret"}}

\* C23: the active-requests gauge is the number of requests inside the
\* middleware-wrapped handler, hence never negative and never more than the
\* requests in flight
C23_GaugeIsRequestsInHandler ==
    /\ activeRequests = Cardinality(InHandler)
    /\ activeRequests >= 0

\* all requests in flight at once, in different places of the handler
C23_Witness ==
    /\ activeRequests = NumReqs
    /\ \E i, j \in Reqs : pc[i] = "stream" /\ pc[j] = "ret"

\* the registry updates the middleware made for request i, in order
MiddlewareOps(i) == OpsWhere(i, LAMBDA o : o.by = "middleware")

\* the place in ops[i] of the last update made by the handler, 0 if none
LastHandlerOp(i) ==
    LET H == {k \in 1..Len(ops[i]) : ops[i][k].by = "handler"}
    IN  IF H = {} THEN 0 ELSE CHOOSE k \in H : \A h \in H : h <= k

\* C24: for a request on any endpoint, returned by any way out of its
\* handler, the middleware has made one request-counter increment and one
\* duration observation, both after the handler's last update and after the
\* gauge went down; while the handler runs it has made none
C24_MiddlewareCountsOnceAfterHandler ==
    \A i \in Reqs :
        LET mo == MiddlewareOps(i)
            r == request[i]
        IN  /\ pc[i] \in {"mw", "stream", "ret"} =>
                  Len(mo) = 1 /\ mo[1].m = "activeRequests" /\ mo[1].v = 1
            /\ pc[i] = "done" =>
                  /\ Len(mo) = 4
                  /\ mo[1].m = "activeRequests" /\ mo[1].v = 1
                  /\ mo[2].m = "activeRequests" /\ mo[2].v = -1
                  /\ mo[3].m = "requestCounter"
                  /\ mo[3].l[1] = r.Method /\ mo[3].l[2] = r.Path
                  /\ mo[4].m = "requestDuration"
                  /\ mo[4].l = <<r.Method, r.Path>>
                  /\ SubSeq(ops[i], Len(ops[i]) - 2, Len(ops[i])) = SubSeq(mo, 2, 4)
                  /\ LastHandlerOp(i) <= Len(ops[i]) - 3

\* a stream cut by a client write failure, counted by the middleware
C24_Witness ==
    /\ pc[1] = "done" /\ writeFailed[1]
    /\ Len(MiddlewareOps(1)) = 4

InputOps(i) ==
    OpsWhere(i, LAMBDA o : o.m = "chatTokensCounter" /\ o.l[1] = "input")

\* POST /chat with a body that decodes, past the point where it is counted
DecodedPost(i) ==
    /\ pc[i] \in {"stream", "ret", "done"}
    /\ request[i].Path = ChatPath
    /\ request[i].Method = "POST"
    /\ request[i].Body.valid

\* C25: a POST /chat whose body decodes has added its input-token estimate to
\* the input counter of its model once, as the first thing it did to the
\* registry, at the moment the stream was opened and for good, however the
\* stream ends; no other request adds input tokens
C25_InputTokensCountedOnce ==
    \A i \in Reqs :
        IF DecodedPost(i)
        THEN LET req == request[i].Body.req
                 io == InputOps(i)
             IN  /\ Len(io) = 1
                 /\ io[1].l = <<"input", modelToUse[i]>>
                 /\ io[1].v = SumContentTokens(req.Messages) + (Len(req.Message) \div 4)
                 /\ HandlerOps(i, "chatTokensCounter")[1] = io[1]
                 /\ streamOpens[i] = 1
                 /\ chatTokensCounter[io[1].l] >= io[1].v
        ELSE InputOps(i) = <<>>

\* counted, then the stream failed upstream; counted, then the client went
C25_Witness ==
    /\ DecodedPost(1) /\ Returned(1)
    /\ streamErr[1] \/ writeFailed[1]
    /\ SeriesValue(chatTokensCounter, <<"input", modelToUse[1]>>) > 0

FirstTokenOps(i) == HandlerOps(i, "firstTokenLatency")

\* what holds of the first-token observation of request i in a state
FirstTokenObserved(i) ==
    LET fo == FirstTokenOps(i)
        some == ContentDeltas(received[i]) # <<>>
    IN  /\ Len(fo) <= 1
        /\ (firstTokenTime[i] # 0) = some
        /\ Len(fo) = 1 <=> Relayed(i) /\ Returned(i) /\ some /\ ~writeFailed[i]
        /\ Len(fo) = 1 =>
              fo[1].l = <<modelToUse[i]>> /\ fo[1].v = firstTokenTime[i] - start[i]

\* C26: a /chat request makes at most one time-to-first-token observation,
\* and makes one exactly when a non-empty delta came and the relay loop was
\* not left by a client write failure; the first-token time is the time of
\* the first non-empty delta and later deltas do not change it
C26_FirstTokenOnce ==
    [][\A i \in Reqs :
          /\ FirstTokenObserved(i)'
          /\ firstTokenTime[i] # 0 /\ pc[i] # "idle" =>
                firstTokenTime'[i] = firstTokenTime[i]
          /\ firstTokenTime[i] = 0 /\ firstTokenTime'[i] # 0 =>
                /\ firstTokenTime'[i] = now
                /\ ContentDeltas(received[i]) = <<>>]_vars

\* three deltas with the clock moving between them, then an upstream error
C26_Witness ==
    /\ pc[1] = "done" /\ streamErr[1]
    /\ Len(ContentDeltas(received[1])) = 3
    /\ Len(FirstTokenOps(1)) = 1
    /\ firstTokenTime[1] < now

\* the context-size gauge of the default model holds a value other than 0
ContextSizeSet ==
    /\ <<defaultModel>> \in DOMAIN llamacppContextSize
    /\ llamacppContextSize[<<defaultModel>>] # 0

\* /metrics/llamacpp has taken a report with a context size other than 0
ContextSizeReported ==
    \E j \in Reqs :
        /\ Returned(j) /\ request[j].Path = LlamaCppPath
        /\ request[j].Body.valid /\ request[j].Body.req.ContextSize # 0

\* C27: the summary's llamaCppMetrics is not null exactly when the default
\* model or the base URL is llama-matching and the context-size gauge of the
\* default model is not 0, which only a POST /metrics/llamacpp with a
\* context size other than 0 brings about, never /chat
C27_LlamaCppMetricsIffContextSize ==
    [][\A i \in Reqs :
          SummaryReads(i) =>
              LET present == resp'[i].body[1].llamaCppMetrics # NullJson
              IN  /\ present <=>
                        LlamaMatching(defaultModel, apiBaseURL) /\ ContextSizeSet
                  /\ present => ContextSizeReported]_vars

RECURSIVE CountOps(_, _)
\* the updates of the vector called name made for the requests of S
CountOps(name, S) ==
    IF S = {} THEN 0
    ELSE LET i == CHOOSE x \in S : TRUE
         IN  Len(OpsWhere(i, LAMBDA o : o.m = name)) + CountOps(name, S \ {i})

\* a step of a /chat request that runs under another model than the default
OverrideStep(i) ==
    /\ pc'[i] # pc[i]
    /\ request'[i].Path = ChatPath
    /\ request'[i].Body.valid
    /\ request'[i].Body.req.Model \notin {<<>>, EnvModel}

\* C28: tokensGenerated and tokensProcessed of the summary are the output
\* and input series of the default model and nothing else, so that a /chat
\* request under another model changes neither; totalRequests is the number
\* of request-counter increments made so far, for every endpoint and label
C28_SummaryReadsDefaultModel ==
    [][\A i \in Reqs :
          /\ SummaryReads(i) =>
                LET summary == resp'[i].body[1]
                IN  /\ summary.tokensGenerated =
                          SeriesValue(chatTokensCounter, <<"output", EnvModel>>)
                    /\ summary.tokensProcessed =
                          SeriesValue(chatTokensCounter, <<"input", EnvModel>>)
                    /\ summary.totalRequests = CountOps("requestCounter", Reqs)
          /\ OverrideStep(i) =>
                /\ SeriesValue(chatTokensCounter', <<"output", EnvModel>>) =
                      SeriesValue(chatTokensCounter, <<"output", EnvModel>>)
                /\ SeriesValue(chatTokensCounter', <<"input", EnvModel>>) =
                      SeriesValue(chatTokensCounter, <<"input", EnvModel>>)]_vars

\* a summary made after a /chat request under another model has ended
C28_Witness ==
    \E i, j \in Reqs :
        /\ SummaryAnswered(i)
        /\ SummaryOf(i).totalRequests = 2
        /\ SummaryOf(i).tokensGenerated = 0 /\ SummaryOf(i).tokensProcessed = 0
        /\ pc[j] = "done" /\ request[j].Body = Json(OverrideRequest)
        /\ SeriesValue(chatTokensCounter, <<"output", ModelGpt>>) = 1

C30_OutboundListOrder ==
    Relayed(1) =>
        LET req == request[1].Body.req
            out == param[1].Messages
            sys == IF AsksMarkdown(req) THEN 1 ELSE 0
        IN  /\ Len(out) = Len(req.Messages) + 1 + sys
            /\ sys = 1 => out[1] = SystemMarkdownMsg
            /\ \A k \in 1..Len(req.Messages) :
                  req.Messages[k].Role \in {"user", "assistant"} =>
                      out[sys + k] = [role |-> req.Messages[k].Role,
                                      content |-> req.Messages[k].Content]
            /\ out[Len(out)] = [role |-> "user", content |-> req.Message]

\* a prior message of role "system" keeps its place between the instruction
\* and the current message
C30_Witness ==
    /\ Relayed(1)
    /\ Len(request[1].Body.req.Messages) = 1
    /\ request[1].Body.req.Messages[1].Role = "system"
    /\ request[1].Body.req.Message = MsgUsingUpper
    /\ Len(param[1].Messages) = 3
    /\ param[1].Messages[3].content = MsgUsingUpper

====
